---- MODULE Spec2Model ----
(***************************************************************************)
(* sovon_cms/main.py: the site-tree model (Document, Category) and the     *)
(* recursive rendering pipeline (render_site, render_category).            *)
(*                                                                         *)
(* A file name is a sequence of one-character strings, a path a sequence   *)
(* of names (the empty path is the filesystem root).  Python integers are  *)
(* unbounded, so an ordering index is a normalised sequence of decimal     *)
(* digits.  None is the empty sequence and a present value x is <<x>>.     *)
(* File contents are sequences of tokens; markdown and jinja are           *)
(* deterministic functions of the template and the bindings they are given.*)
(***************************************************************************)
EXTENDS Integers, Sequences, FiniteSets, TLC

None == <<>>
Some(x) == <<x>>

Range(s) == {s[i] : i \in 1..Len(s)}

--------------------------------------------------------------------------
(* Names used by the inputs.                                               *)

MARKDOWN_TEMPLATE == <<"_","m","a","r","k","d","o","w","n",".","h","t","m","l">>
INDEX_TEMPLATE == <<"_","i","n","d","e","x",".","h","t","m","l">>
INDEX_HTML == <<"i","n","d","e","x",".","h","t","m","l">>

N_1a_md == <<"1","-","a",".","m","d">>
N_01b_md == <<"0","1","_","b",".","m","d">>
N_2c_md == <<"2",".","c",".","m","d">>
N_n_md == <<"n",".","m","d">>
N_big_md == <<"9","9","9","9","9","9","9","9","9","9","9","-","z",".","m","d">>
N_a_md == <<"a",".","m","d">>
N_a_html == <<"a",".","h","t","m","l">>
N_index_md == <<"i","n","d","e","x",".","m","d">>
N_q_htm == <<"q",".","h","t","m">>
N_x_png == <<"x",".","p","n","g">>
N_y_txt == <<"y",".","t","x","t">>
N_7 == <<"7","-">>
N_dotmd == <<".","m","d">>

D_r == <<"r">>
D_c == <<"c">>
D_d == <<"2","-","d">>
D_g == <<"g">>
D_o1 == <<"o","1">>
D_o2 == <<"o","2">>
D_dist == <<"d","i","s","t">>
F_f == <<"f">>
D_nx == <<"n","x">>

--------------------------------------------------------------------------
(* Strings and integers.                                                   *)

Digits == {"0","1","2","3","4","5","6","7","8","9"}

DigitVal(c) ==
  CASE c = "0" -> 0 [] c = "1" -> 1 [] c = "2" -> 2 [] c = "3" -> 3 [] c = "4" -> 4
    [] c = "5" -> 5 [] c = "6" -> 6 [] c = "7" -> 7 [] c = "8" -> 8 [] c = "9" -> 9

\* str.endswith
EndsWith(s, suf) ==
  /\ Len(s) >= Len(suf)
  /\ SubSeq(s, Len(s) - Len(suf) + 1, Len(s)) = suf

\* int(): the digits as an unbounded integer, most significant digit first,
\* without leading zeros (zero is <<0>>)
RECURSIVE StripZeros(_)
StripZeros(ds) ==
  IF Len(ds) > 1 /\ Head(ds) = 0 THEN StripZeros(Tail(ds)) ELSE ds

IntOf(chars) == StripZeros([i \in 1..Len(chars) |-> DigitVal(chars[i])])

\* a < b on unbounded integers
RECURSIVE LexLess(_, _)
LexLess(a, b) ==
  /\ a # <<>>
  /\ \/ Head(a) < Head(b)
     \/ Head(a) = Head(b) /\ LexLess(Tail(a), Tail(b))

IntLess(a, b) ==
  \/ Len(a) < Len(b)
  \/ Len(a) = Len(b) /\ LexLess(a, b)

IntLeq(a, b) == ~IntLess(b, a)

\* MAX_INDEX = int(1e10)
MAX_INDEX == <<1,0,0,0,0,0,0,0,0,0,0>>

\* os.path.splitext on a name without separators: the extension starts at the
\* last dot, unless only dots precede it
LastDot(s) ==
  IF \E i \in 1..Len(s) : s[i] = "."
    THEN CHOOSE i \in 1..Len(s) : s[i] = "." /\ \A j \in (i+1)..Len(s) : s[j] # "."
    ELSE 0

SplitExtRoot(s) ==
  LET d == LastDot(s) IN
  IF d > 0 /\ \E j \in 1..(d-1) : s[j] # "." THEN SubSeq(s, 1, d-1) ELSE s

\* the number of leading decimal digits of s
RECURSIVE DigitPrefixLen(_)
DigitPrefixLen(s) ==
  IF s # <<>> /\ Head(s) \in Digits THEN 1 + DigitPrefixLen(Tail(s)) ELSE 0

\* re.match(r'(\d+)[\-\._](.+)', file_name)
PrefixMatch(file_name) ==
  LET k == DigitPrefixLen(file_name) IN
  /\ k >= 1
  /\ Len(file_name) >= k + 2
  /\ file_name[k+1] \in {"-", ".", "_"}

parse_file_name(file_name) ==
  LET k == DigitPrefixLen(file_name) IN
  IF PrefixMatch(file_name)
    THEN [index |-> IntOf(SubSeq(file_name, 1, k)),
          title |-> SplitExtRoot(SubSeq(file_name, k+2, Len(file_name)))]
    ELSE [index |-> MAX_INDEX, title |-> SplitExtRoot(file_name)]

\* re.sub(r'\.md$', '.html', s)
SubMdHtml(s) ==
  IF EndsWith(s, <<".","m","d">>)
    THEN SubSeq(s, 1, Len(s) - 3) \o <<".","h","t","m","l">>
    ELSE s

--------------------------------------------------------------------------
(* The filesystem: a function from the paths that exist to their entries.  *)

Parent(p) == SubSeq(p, 1, Len(p) - 1)
Base(p) == p[Len(p)]

DirEntry(list) == [kind |-> "dir", list |-> list, content |-> <<>>]
FileEntry(content) == [kind |-> "file", list |-> <<>>, content |-> content]

Exists(f, p) == p \in DOMAIN f
IsDir(f, p) == Exists(f, p) /\ f[p].kind = "dir"
IsFile(f, p) == Exists(f, p) /\ f[p].kind = "file"

\* os.listdir: the names in the directory, in the directory's listing order
ListDir(f, p) == f[p].list

\* a new entry at p (its directory exists); a new name is listed last
PutEntry(f, p, e) ==
  [q \in DOMAIN f \cup {p} |->
     IF q = p THEN e
     ELSE IF q = Parent(p) /\ ~Exists(f, p)
       THEN [f[q] EXCEPT !.list = Append(@, Base(p))]
       ELSE f[q]]

\* os.makedirs(p, exist_ok=True) succeeds: no file on the way
RECURSIVE CanMakeDirs(_, _)
CanMakeDirs(f, p) ==
  IF Exists(f, p) THEN IsDir(f, p) ELSE p # <<>> /\ CanMakeDirs(f, Parent(p))

RECURSIVE MakeDirs(_, _)
MakeDirs(f, p) ==
  IF Exists(f, p) THEN f ELSE PutEntry(MakeDirs(f, Parent(p)), p, DirEntry(<<>>))

\* open(p, 'w') succeeds: the directory exists and p is no directory
CanWrite(f, p) == p # <<>> /\ IsDir(f, Parent(p)) /\ ~IsDir(f, p)

write_file(f, p, content) == PutEntry(f, p, FileEntry(content))

\* shutil.copy(src, dst): into dst when dst is a directory
CopyTarget(f, src, dst) == IF IsDir(f, dst) THEN dst \o <<Base(src)>> ELSE dst

--------------------------------------------------------------------------
(* File contents and the two collaborators.                                *)

RECURSIVE Flat(_)
Flat(p) == IF p = <<>> THEN <<>> ELSE <<"/">> \o Head(p) \o Flat(Tail(p))

RECURSIVE FlatAll(_)
FlatAll(ps) == IF ps = <<>> THEN <<>> ELSE Flat(Head(ps)) \o <<",">> \o FlatAll(Tail(ps))

\* the text of the source file first stored at p
SourceContent(p) == <<"src">> \o Flat(p)

read_file(f, file_path) == f[file_path].content

\* env.get_template(template) finds the template: it is a file
TemplateFound(f, file_path) == IsFile(f, file_path)

\* parse_jinja(file_path, documents=, children=, root=, document=, category=):
\* the rendering is a function of the template's text and of the bindings
\* (documents and categories by their paths, the document with its text)
parse_jinja(f, file_path, documents, children, root, document, category) ==
  <<"{">> \o read_file(f, file_path)
    \o <<"documents=">> \o FlatAll([i \in 1..Len(documents) |-> documents[i].file_path])
    \o <<"children=">> \o FlatAll(children)
    \o <<"root=">> \o Flat(root)
    \o <<"document=">>
    \o (IF document = None THEN <<>>
        ELSE Flat(document[1].file_path) \o <<":">> \o read_file(f, document[1].file_path))
    \o <<"category=">> \o Flat(category) \o <<"}">>

--------------------------------------------------------------------------
(* Document and Category.                                                  *)

\* Document.__init__ (modified_time is read by nothing and is left out)
Document(file_path) ==
  LET file_name == Base(file_path)
      is_markdown == EndsWith(file_name, <<".","m","d">>)
      is_html == \/ EndsWith(file_name, <<".","h","t","m","l">>)
                 \/ EndsWith(file_name, <<".","h","t","m">>)
      parsed == parse_file_name(file_name)
  IN [file_path |-> file_path,
      is_markdown |-> is_markdown,
      is_html |-> is_html,
      index |-> IF is_markdown THEN Some(parsed.index) ELSE None,
      title |-> IF is_markdown THEN parsed.title ELSE file_name]

\* Document.href
href(document) ==
  LET file_name == Base(document.file_path) IN
  IF document.is_markdown THEN SubMdHtml(file_name) ELSE file_name

\* the template a category resolves: its own file when the path exists, else
\* its parent's resolved template (None without a parent)
ResolveTemplateNoInherit(f, dir_path, name, inherited) ==
  IF Exists(f, dir_path \o <<name>>) THEN Some(dir_path \o <<name>>) ELSE None

ResolveTemplate(f, dir_path, name, inherited) ==
  IF Exists(f, dir_path \o <<name>>) THEN Some(dir_path \o <<name>>) ELSE inherited

\* Category.__init__: given is None or <<[index, title]>>, parent is None or
\* <<the parent's Category>>
Category(f, dir_path, given, parent) ==
  LET parsed == parse_file_name(Base(dir_path)) IN
  [dir_path |-> dir_path,
   index |-> IF given = None THEN parsed.index ELSE given[1].index,
   title |-> IF given = None THEN parsed.title ELSE given[1].title,
   document_template |->
     ResolveTemplate(f, dir_path, MARKDOWN_TEMPLATE,
                     IF parent # None THEN parent[1].document_template ELSE None),
   index_template |->
     ResolveTemplate(f, dir_path, INDEX_TEMPLATE,
                     IF parent # None THEN parent[1].index_template ELSE None),
   parent |-> IF parent # None THEN Some(parent[1].dir_path) ELSE None,
   documents_ |-> None,
   children_ |-> None]

\* Category.documents: the cached list, else the files of the directory that
\* are not the two template names, in listing order
CategoryDocuments(f, cat) ==
  IF cat.documents_ # None THEN cat.documents_[1]
  ELSE LET names == SelectSeq(ListDir(f, cat.dir_path),
                              LAMBDA n : /\ n \notin {INDEX_TEMPLATE, MARKDOWN_TEMPLATE}
                                         /\ IsFile(f, cat.dir_path \o <<n>>))
       IN [i \in 1..Len(names) |-> Document(cat.dir_path \o <<names[i]>>)]

\* Category.children: the cached list, else the subdirectories in listing
\* order (the paths of the child categories)
CategoryChildren(f, cat) ==
  IF cat.children_ # None THEN cat.children_[1]
  ELSE LET names == SelectSeq(ListDir(f, cat.dir_path),
                              LAMBDA n : IsDir(f, cat.dir_path \o <<n>>))
       IN [i \in 1..Len(names) |-> cat.dir_path \o <<names[i]>>]

\* Category.has_html over the category's documents
has_html(documents) ==
  \E i \in 1..Len(documents) : documents[i].is_markdown \/ documents[i].is_html

--------------------------------------------------------------------------
(* list.sort(key=...): a stable sort, ascending by key.                    *)

SortKey(doc) == IF doc.index # None THEN doc.index[1] ELSE MAX_INDEX

RECURSIVE InsertUnstable(_, _)
InsertUnstable(sorted, d) ==
  IF sorted = <<>> THEN <<d>>
  ELSE IF IntLeq(SortKey(d), SortKey(Head(sorted))) THEN <<d>> \o sorted
  ELSE <<Head(sorted)>> \o InsertUnstable(Tail(sorted), d)

\* d goes after every element whose key is not greater
RECURSIVE InsertSorted(_, _)
InsertSorted(sorted, d) ==
  IF sorted = <<>> THEN <<d>>
  ELSE IF IntLess(SortKey(d), SortKey(Head(sorted))) THEN <<d>> \o sorted
  ELSE <<Head(sorted)>> \o InsertSorted(Tail(sorted), d)

RECURSIVE SortInto(_, _)
SortInto(sorted, rest) ==
  IF rest = <<>> THEN sorted ELSE SortInto(InsertSorted(sorted, Head(rest)), Tail(rest))

SortByIndex(docs) == SortInto(<<>>, docs)

--------------------------------------------------------------------------
(* The state.                                                              *)

VARIABLES
  fs,           \* the filesystem
  invocations,  \* the render_site calls still to be made: [root_dir, output_dir]
  phase,        \* "idle", "running", "done" or "failed" (an exception ended the run)
  root,         \* the root Category of the run (its dir_path)
  cats,         \* the Category objects of the run, by dir_path
  stack,        \* the frames of render_category, the innermost last
  calls,        \* history: the render_category calls of the run, in order
  writes,       \* history: the files written by the run, in order
  started,      \* history: the run's arguments and the filesystem it started on
  finished      \* history: the runs that ended

vars == <<fs, invocations, phase, root, cats, stack, calls, writes, started, finished>>

ROOT == <<"R","O","O","T">>

\* the deepest nesting of render_category a run survives (the recursion and
\* path-length limits end a deeper run with an exception)
MaxDepth == 4

NewFrame(category, output_dir) ==
  [category |-> category, output_dir |-> output_dir, pc |-> "enter",
   children |-> <<>>, documents |-> <<>>, children_with_html |-> <<>>,
   markdown_documents |-> <<>>, i |-> 1]

Top == stack[Len(stack)]

SetTop(frame) == [stack EXCEPT ![Len(stack)] = frame]

\* an exception leaves render_site: the run is over
Raise ==
  /\ phase' = "failed"
  /\ stack' = <<>>
  /\ finished' = Append(finished, [root_dir |-> started.root_dir,
                                    output_dir |-> started.output_dir,
                                    fresh |-> started.fresh,
                                    result |-> "failed"])

--------------------------------------------------------------------------
(* render_site                                                             *)

EnsureOutputDirNoExistOk(f, output_dir) ==
  IF ~Exists(f, output_dir) /\ CanMakeDirs(f, output_dir)
    THEN [ok |-> TRUE, fs |-> MakeDirs(f, output_dir)]
    ELSE [ok |-> FALSE, fs |-> f]

\* lines 175-178: the output directory is made, or must be a directory
EnsureOutputDir(f, output_dir) ==
  IF ~Exists(f, output_dir)
    THEN IF CanMakeDirs(f, output_dir)
           THEN [ok |-> TRUE, fs |-> MakeDirs(f, output_dir)]
           ELSE [ok |-> FALSE, fs |-> f]
    ELSE [ok |-> IsDir(f, output_dir), fs |-> f]

render_site ==
  /\ phase # "running"
  /\ invocations # <<>>
  /\ LET root_dir == Head(invocations).root_dir
         output_dir == Head(invocations).output_dir
         valid == Exists(fs, root_dir) /\ IsDir(fs, root_dir)
         out == EnsureOutputDir(fs, output_dir)
         begun == [root_dir |-> root_dir, output_dir |-> output_dir, fs |-> fs,
                   fresh |-> \/ ~Exists(fs, output_dir)
                             \/ IsDir(fs, output_dir) /\ ListDir(fs, output_dir) = <<>>]
     IN /\ invocations' = Tail(invocations)
        /\ started' = begun
        /\ calls' = IF valid /\ out.ok
                      THEN <<[category |-> root_dir, output_dir |-> output_dir]>>
                      ELSE <<>>
        /\ writes' = <<>>
        /\ root' = root_dir
        /\ IF valid /\ out.ok
             THEN /\ fs' = out.fs
                  /\ cats' = (root_dir :> Category(out.fs, root_dir,
                                                   Some([index |-> <<0>>, title |-> ROOT]),
                                                   None))
                  /\ stack' = <<NewFrame(root_dir, output_dir)>>
                  /\ phase' = "running"
                  /\ finished' = finished
             ELSE /\ fs' = fs
                  /\ cats' = <<>>
                  /\ phase' = "failed"
                  /\ stack' = <<>>
                  /\ finished' = Append(finished, [root_dir |-> root_dir,
                                                    output_dir |-> output_dir,
                                                    fresh |-> begun.fresh,
                                                    result |-> "failed"])

--------------------------------------------------------------------------
(* render_category, one step at a time: lines 187-197, the index page      *)
(* (199-203), one document of the loop (205-218), one child of the loop    *)
(* (220-222), and the return.                                              *)

ChildrenUnfiltered(children, documentsOf) == children

\* line 195: the children that have a markdown or html document
ChildrenWithHtml(children, documentsOf) ==
  SelectSeq(children, LAMBDA c : has_html(documentsOf[c]))

\* line 196
MarkdownDocuments(documents) == SelectSeq(documents, LAMBDA d : d.is_markdown)

EnterCategory ==
  /\ phase = "running"
  /\ Top.pc = "enter"
  /\ LET fr == Top
         cat == cats[fr.category]
     IN
     IF ~Exists(fs, fr.output_dir) /\ ~CanMakeDirs(fs, fr.output_dir)
       THEN /\ Raise
            /\ UNCHANGED <<fs, invocations, root, cats, calls, writes, started>>
       ELSE
         LET f1 == MakeDirs(fs, fr.output_dir)
             children == CategoryChildren(f1, cat)
             documents == CategoryDocuments(f1, cat)
             child(p) == IF p \in DOMAIN cats THEN cats[p]
                         ELSE Category(f1, p, None, Some(cat))
             childDocs == [p \in Range(children) |-> CategoryDocuments(f1, child(p))]
         IN /\ fs' = f1
            /\ cats' = [p \in DOMAIN cats \cup Range(children) |->
                          IF p = fr.category
                            THEN [cat EXCEPT !.children_ = Some(children),
                                             !.documents_ = Some(documents)]
                          ELSE IF p \in Range(children)
                            THEN [child(p) EXCEPT !.documents_ = Some(childDocs[p])]
                          ELSE cats[p]]
            /\ stack' = SetTop([fr EXCEPT
                 !.pc = "index",
                 !.children = children,
                 !.documents = documents,
                 !.children_with_html = ChildrenWithHtml(children, childDocs),
                 !.markdown_documents = SortByIndex(MarkdownDocuments(documents))])
            /\ UNCHANGED <<invocations, phase, root, calls, writes, started, finished>>

Paths(documents) == [i \in 1..Len(documents) |-> documents[i].file_path]

Written(op, output_path, category, document, template, documents, children, content) ==
  [op |-> op, path |-> output_path, category |-> category, document |-> document,
   template |-> template, documents |-> Paths(documents), children |-> children,
   content |-> content]

WriteIndex ==
  /\ phase = "running"
  /\ Top.pc = "index"
  /\ LET fr == Top
         cat == cats[fr.category]
         index_template == cat.index_template
         output_path == fr.output_dir \o <<INDEX_HTML>>
         next == [fr EXCEPT !.pc = IF fr.documents = <<>> THEN "children" ELSE "docs",
                            !.i = 1]
     IN
     IF index_template # None /\ Len(fr.markdown_documents) > 0
       THEN IF TemplateFound(fs, index_template[1]) /\ CanWrite(fs, output_path)
              THEN LET content == parse_jinja(fs, index_template[1], fr.markdown_documents,
                                              fr.children, root, None, fr.category)
                   IN /\ fs' = write_file(fs, output_path, content)
                      /\ writes' = Append(writes,
                           Written("index", output_path, fr.category, None, index_template,
                                   fr.markdown_documents, fr.children, content))
                      /\ stack' = SetTop(next)
                      /\ UNCHANGED <<invocations, phase, root, cats, calls, started, finished>>
              ELSE /\ Raise
                   /\ UNCHANGED <<fs, invocations, root, cats, calls, writes, started>>
       ELSE /\ stack' = SetTop(next)
            /\ UNCHANGED <<fs, invocations, phase, root, cats, calls, writes, started,
                           finished>>

DocBranchNoHtml(document, markdown_template) ==
  IF document.is_markdown /\ markdown_template # None THEN "template" ELSE "copy"

\* lines 208, 213, 217: the branch a document takes
DocBranch(document, markdown_template) ==
  IF document.is_markdown /\ markdown_template # None THEN "template"
  ELSE IF document.is_html THEN "self"
  ELSE "copy"

RenderDocument ==
  /\ phase = "running"
  /\ Top.pc = "docs"
  /\ LET fr == Top
         cat == cats[fr.category]
         markdown_template == cat.document_template
         document == fr.documents[fr.i]
         file_name == Base(document.file_path)
         branch == DocBranch(document, markdown_template)
         joined == fr.output_dir \o <<file_name>>
         output_path ==
           CASE branch = "template" -> Parent(joined) \o <<SubMdHtml(Base(joined))>>
             [] branch = "self" -> joined
             [] branch = "copy" -> CopyTarget(fs, document.file_path, joined)
         template ==
           CASE branch = "template" -> markdown_template
             [] branch = "self" -> Some(document.file_path)
             [] branch = "copy" -> None
         ok == /\ CanWrite(fs, output_path)
               /\ template # None => TemplateFound(fs, template[1])
         content ==
           CASE branch = "template" ->
                  parse_jinja(fs, template[1], fr.markdown_documents,
                              fr.children_with_html, root, Some(document), fr.category)
             [] branch = "self" ->
                  parse_jinja(fs, template[1], fr.markdown_documents,
                              fr.children_with_html, root, None, fr.category)
             [] branch = "copy" -> read_file(fs, document.file_path)
         next == IF fr.i = Len(fr.documents)
                   THEN [fr EXCEPT !.pc = "children", !.i = 1]
                   ELSE [fr EXCEPT !.i = @ + 1]
     IN
     IF ok
       THEN /\ fs' = write_file(fs, output_path, content)
            /\ writes' = Append(writes,
                 Written(branch, output_path, fr.category, Some(document.file_path),
                         template,
                         IF branch = "copy" THEN <<>> ELSE fr.markdown_documents,
                         IF branch = "copy" THEN <<>> ELSE fr.children_with_html,
                         content))
            /\ stack' = SetTop(next)
            /\ UNCHANGED <<invocations, phase, root, cats, calls, started, finished>>
       ELSE /\ Raise
            /\ UNCHANGED <<fs, invocations, root, cats, calls, writes, started>>

RenderChild ==
  /\ phase = "running"
  /\ Top.pc = "children"
  /\ Top.i <= Len(Top.children)
  /\ LET child == Top.children[Top.i]
         output_dir == Top.output_dir \o <<Base(child)>>
     IN
     IF Len(stack) >= MaxDepth
       THEN /\ Raise
            /\ UNCHANGED <<fs, invocations, root, cats, calls, writes, started>>
       ELSE /\ stack' = Append(SetTop([Top EXCEPT !.i = @ + 1]), NewFrame(child, output_dir))
            /\ calls' = Append(calls, [category |-> child, output_dir |-> output_dir])
            /\ UNCHANGED <<fs, invocations, phase, root, cats, writes, started, finished>>

Return ==
  /\ phase = "running"
  /\ Top.pc = "children"
  /\ Top.i > Len(Top.children)
  /\ IF Len(stack) = 1
       THEN /\ phase' = "done"
            /\ stack' = <<>>
            /\ finished' = Append(finished, [root_dir |-> started.root_dir,
                                              output_dir |-> started.output_dir,
                                              fresh |-> started.fresh,
                                              result |-> "done"])
       ELSE /\ stack' = SubSeq(stack, 1, Len(stack) - 1)
            /\ UNCHANGED <<phase, finished>>
  /\ UNCHANGED <<fs, invocations, root, cats, calls, writes, started>>

Next ==
  \/ render_site
  \/ EnterCategory
  \/ WriteIndex
  \/ RenderDocument
  \/ RenderChild
  \/ Return

--------------------------------------------------------------------------
(* Input trees.  A tree is given by the listing of each of its             *)
(* directories; beside the root r the filesystem holds an empty directory  *)
(* o2 and a file f, and o1 and nx do not exist.                            *)

\* the sequences of at most n different elements of S
Listings(S, n) ==
  UNION {{s \in [1..k -> S] : \A i, j \in 1..k : i < j => s[i] # s[j]} : k \in 0..n}

TreeFs(dirs) ==
  [p \in DOMAIN dirs \cup UNION {{d \o <<n>> : n \in Range(dirs[d])} : d \in DOMAIN dirs}
     |-> IF p \in DOMAIN dirs THEN DirEntry(dirs[p]) ELSE FileEntry(SourceContent(p))]

\* r lists rL; its subdirectories c and 2-d (when listed) list cL and dL; g in
\* c (when listed) lists gL
Dirs(rL, cL, dL, gL) ==
  LET hasC == D_c \in Range(rL)
      hasD == D_d \in Range(rL)
      hasG == hasC /\ D_g \in Range(cL)
      paths == {<<>>, <<D_r>>, <<D_o2>>}
                 \cup (IF hasC THEN {<<D_r, D_c>>} ELSE {})
                 \cup (IF hasD THEN {<<D_r, D_d>>} ELSE {})
                 \cup (IF hasG THEN {<<D_r, D_c, D_g>>} ELSE {})
  IN [p \in paths |->
        CASE p = <<>> -> <<D_r, D_o2, F_f>>
          [] p = <<D_r>> -> rL
          [] p = <<D_o2>> -> <<>>
          [] p = <<D_r, D_c>> -> cL
          [] p = <<D_r, D_d>> -> dL
          [] p = <<D_r, D_c, D_g>> -> gL]

Call(root_dir, output_dir) == [root_dir |-> root_dir, output_dir |-> output_dir]

InitWith(RL, CL, DL, GL, Scripts) ==
  \E rL \in RL, cL \in CL, dL \in DL, gL \in GL, script \in Scripts :
    /\ fs = TreeFs(Dirs(rL, cL, dL, gL))
    /\ invocations = script
    /\ phase = "idle"
    /\ root = <<>>
    /\ cats = <<>>
    /\ stack = <<>>
    /\ calls = <<>>
    /\ writes = <<>>
    /\ started = [root_dir |-> <<>>, output_dir |-> <<>>, fs |-> <<>>, fresh |-> FALSE]
    /\ finished = <<>>

\* the most documents a listing of the ordering inputs draws
MaxDocs == 3

OrderNames == {N_1a_md, N_01b_md, N_2c_md, N_n_md, N_big_md, N_q_htm}

InitOrder ==
  InitWith({<<MARKDOWN_TEMPLATE, INDEX_TEMPLATE>> \o l \o <<D_c>> :
              l \in Listings(OrderNames, MaxDocs)},
           {<<N_x_png>>, <<N_n_md, N_1a_md>>}, {<<>>}, {<<>>},
           {<<Call(<<D_r>>, <<D_o1>>)>>})

SpecOrder == InitOrder /\ [][Next]_vars

--------------------------------------------------------------------------
(* What the claims speak of, read off the filesystem and the histories.    *)

IsPrefix(p, q) == Len(p) <= Len(q) /\ SubSeq(q, 1, Len(p)) = p

IsMdName(n) == EndsWith(n, <<".","m","d">>)
IsHtmlName(n) == EndsWith(n, <<".","h","t","m","l">>) \/ EndsWith(n, <<".","h","t","m">>)
IsTemplateName(n) == n \in {MARKDOWN_TEMPLATE, INDEX_TEMPLATE}

\* the document files of directory d of filesystem f, in listing order
DocumentFiles(f, d) ==
  LET names == SelectSeq(ListDir(f, d),
                         LAMBDA n : IsFile(f, d \o <<n>>) /\ ~IsTemplateName(n))
  IN [i \in 1..Len(names) |-> d \o <<names[i]>>]

MarkdownFiles(f, d) == SelectSeq(DocumentFiles(f, d), LAMBDA p : IsMdName(Base(p)))

IndexOfName(n) == parse_file_name(n).index

\* the place of x in the sequence s
Position(s, x) == CHOOSE i \in 1..Len(s) : s[i] = x

\* the writes that bind `documents`
BindingWrites == {i \in 1..Len(writes) : writes[i].op \in {"index", "template", "self"}}

\* the output directory render_category was called with for category c
OutputDirOf(c) == calls[CHOOSE k \in 1..Len(calls) : calls[k].category = c].output_dir

\* C1: the documents bound by every rendering of a category are exactly the
\* category's markdown files, ascending by index, equal indices in the order of
\* the directory listing
C1_DocumentsSortedStable ==
  \A w \in BindingWrites :
    LET docs == writes[w].documents
        listed == MarkdownFiles(started.fs, writes[w].category)
    IN /\ Len(docs) = Len(listed)
       /\ Range(docs) = Range(listed)
       /\ \A i, j \in 1..Len(docs) :
            i < j =>
              /\ IntLeq(IndexOfName(Base(docs[i])), IndexOfName(Base(docs[j])))
              /\ IndexOfName(Base(docs[i])) = IndexOfName(Base(docs[j]))
                   => Position(listed, docs[i]) < Position(listed, docs[j])

\* three documents were bound, two of them with the same index, and the
\* listing was not in order
C1_Witness ==
  \E w \in BindingWrites :
    LET docs == writes[w].documents
        listed == MarkdownFiles(started.fs, writes[w].category)
    IN /\ Len(docs) = 3
       /\ docs # listed
       /\ \E i \in 1..2 : IndexOfName(Base(docs[i])) = IndexOfName(Base(docs[i+1]))

\* C6: the unordered sentinel is above every parsed index, and in the bound
\* documents no unnumbered name comes before a numbered one
C6_SentinelAboveEveryIndex ==
  /\ \A c \in DOMAIN cats :
       \A d \in Range(CategoryDocuments(fs, cats[c])) :
         (d.is_markdown /\ PrefixMatch(Base(d.file_path)))
           => IntLess(d.index[1], MAX_INDEX)
  /\ \A w \in BindingWrites :
       \A i, j \in 1..Len(writes[w].documents) :
         i < j => ~(/\ ~PrefixMatch(Base(writes[w].documents[i]))
                    /\ PrefixMatch(Base(writes[w].documents[j])))

--------------------------------------------------------------------------
(* Template inheritance along a chain r, r/c, r/c/g.                       *)

TemplateSets == {<<>>, <<MARKDOWN_TEMPLATE>>, <<INDEX_TEMPLATE>>,
                 <<INDEX_TEMPLATE, MARKDOWN_TEMPLATE>>}

InitTemplates ==
  InitWith({t \o l \o <<D_c, D_d>> : t \in TemplateSets, l \in {<<>>, <<N_1a_md>>}},
           {t \o <<N_n_md, D_g>> : t \in TemplateSets},
           {<<N_x_png>>},
           {t \o <<N_a_md, N_q_htm>> : t \in TemplateSets},
           {<<Call(<<D_r>>, <<D_o1>>)>>, <<Call(<<D_r>>, <<D_o2>>)>>})

SpecTemplates == InitTemplates /\ [][Next]_vars

\* the directories from the root category down to c
ChainOf(c) == {SubSeq(c, 1, k) : k \in Len(root)..Len(c)}

\* the nearest directory of the chain that holds the file `name`, if any
NearestHolder(c, name) ==
  LET holders == {a \in ChainOf(c) : Exists(fs, a \o <<name>>)} IN
  IF holders = {} THEN None
  ELSE Some((CHOOSE a \in holders : \A b \in holders : Len(b) <= Len(a)) \o <<name>>)

\* C2: each of the two templates of every category is its own file when its
\* directory holds one, else its parent's resolved template; so it is the file
\* of the nearest directory up the chain that holds one, and none when no
\* directory of the chain does
C2_TemplateInheritance ==
  \A c \in DOMAIN cats :
    /\ cats[c].document_template = NearestHolder(c, MARKDOWN_TEMPLATE)
    /\ cats[c].index_template = NearestHolder(c, INDEX_TEMPLATE)
    /\ cats[c].parent # None =>
         /\ ~Exists(fs, c \o <<MARKDOWN_TEMPLATE>>)
              => cats[c].document_template = cats[cats[c].parent[1]].document_template
         /\ ~Exists(fs, c \o <<INDEX_TEMPLATE>>)
              => cats[c].index_template = cats[cats[c].parent[1]].index_template

\* the grandchild inherits the root's document template through a child with
\* no template file, and no directory of its chain holds an index template
C2_Witness ==
  /\ <<D_r, D_c, D_g>> \in DOMAIN cats
  /\ ~Exists(fs, <<D_r, D_c, MARKDOWN_TEMPLATE>>)
  /\ ~Exists(fs, <<D_r, D_c, D_g, MARKDOWN_TEMPLATE>>)
  /\ cats[<<D_r, D_c, D_g>>].document_template = Some(<<D_r, MARKDOWN_TEMPLATE>>)
  /\ \A c \in ChainOf(<<D_r, D_c, D_g>>) : cats[c].index_template = None

--------------------------------------------------------------------------
(* Documents of every kind, with and without templates, and children with  *)
(* and without renderable documents.                                       *)

\* the most files a listing of the root draws here
MaxFiles == 3

NavNames == {MARKDOWN_TEMPLATE, INDEX_TEMPLATE, N_a_md, N_a_html, INDEX_HTML, N_x_png,
             N_dotmd}

InitNav ==
  InitWith({l \o <<D_c, D_d>> : l \in Listings(NavNames, MaxFiles)},
           {<<N_x_png, N_y_txt>>, <<MARKDOWN_TEMPLATE, N_1a_md, N_7, D_g>>,
            <<N_index_md, N_x_png>>},
           {<<N_q_htm>>},
           {<<N_y_txt>>},
           {<<Call(<<D_r>>, <<D_o1>>)>>})

SpecNav == InitNav /\ [][Next]_vars

\* the directories of the input tree below the root category
InputCategories ==
  {p \in DOMAIN started.fs : IsDir(started.fs, p) /\ IsPrefix(root, p) /\ root # <<>>}

\* every document file of directory d is an asset
AssetsOnly(d) ==
  \A p \in Range(DocumentFiles(started.fs, d)) : ~IsMdName(Base(p)) /\ ~IsHtmlName(Base(p))

\* where the mirror of input directory d lies in the output
MirrorOf(d) == started.output_dir \o SubSeq(d, Len(root) + 1, Len(d))

\* C3: a child with only assets is in no `children` bound by a document
\* template or an html page of its parent, and after the run its mirror
\* directory exists, named after it, and holds a copy of each of its assets
C3_AssetOnlyChild ==
  /\ \A w \in 1..Len(writes) :
       writes[w].op \in {"template", "self"} =>
         \A c \in Range(writes[w].children) : ~AssetsOnly(c)
  /\ phase = "done" =>
       \A d \in InputCategories :
         (d # root /\ AssetsOnly(d)) =>
           /\ IsDir(fs, MirrorOf(d))
           /\ Base(MirrorOf(d)) = Base(d)
           /\ \A p \in Range(DocumentFiles(started.fs, d)) :
                /\ IsFile(fs, MirrorOf(d) \o <<Base(p)>>)
                /\ fs[MirrorOf(d) \o <<Base(p)>>].content = started.fs[p].content

\* the run is over; the root had a document rendered with its children bound,
\* one of them kept, while c held only assets
C3_Witness ==
  /\ phase = "done"
  /\ <<D_r, D_c>> \in InputCategories
  /\ AssetsOnly(<<D_r, D_c>>)
  /\ DocumentFiles(started.fs, <<D_r, D_c>>) # <<>>
  /\ \E w \in 1..Len(writes) :
       /\ writes[w].op = "template"
       /\ writes[w].category = <<D_r>>
       /\ writes[w].children = << <<D_r, D_d>> >>

\* the writes of the per-document pass of category c, in order
DocumentWrites(c) ==
  SelectSeq(writes, LAMBDA w : w.op # "index" /\ w.category = c)

\* C4: every document is handled once, by the branch its kind and the
\* resolved document template choose: markdown under a template is rendered to
\* the name with .md replaced by .html; an html document is rendered from
\* itself to its own name; anything else, markdown without template included,
\* is copied unchanged to its own name
C4_OneBranchPerDocument ==
  /\ \A i \in 1..Len(writes) :
       LET w == writes[i] IN
       w.op # "index" =>
         LET d == w.document[1]
             n == Base(d)
             out == OutputDirOf(w.category)
             tpl == cats[w.category].document_template
         IN IF IsMdName(n) /\ tpl # None
              THEN /\ w.op = "template"
                   /\ w.template = tpl
                   /\ w.path = out \o <<SubSeq(n, 1, Len(n) - 3) \o <<".","h","t","m","l">> >>
            ELSE IF IsHtmlName(n)
              THEN /\ w.op = "self"
                   /\ w.template = Some(d)
                   /\ w.path = out \o <<n>>
            ELSE /\ w.op = "copy"
                 /\ w.path = out \o <<n>>
                 /\ w.content = started.fs[d].content
  /\ \A c \in DOMAIN cats :
       LET done == DocumentWrites(c)
           files == DocumentFiles(started.fs, c)
       IN /\ Len(done) <= Len(files)
          /\ \A k \in 1..Len(done) : done[k].document = Some(files[k])
          /\ (phase = "done" \/ \E k \in 1..Len(stack) :
                                  stack[k].category = c /\ stack[k].pc = "children")
               => Len(done) = Len(files)

\* the run is over and took all three branches, copying a markdown document
C4_Witness ==
  /\ phase = "done"
  /\ \E i, j, k \in 1..Len(writes) :
       /\ writes[i].op = "template"
       /\ writes[j].op = "self"
       /\ writes[k].op = "copy" /\ IsMdName(Base(writes[k].document[1]))

\* C5: after the run every category with a resolved index template and a
\* markdown document has index.html holding the rendering of that template
\* with the sorted markdown documents and all its children; the others got no
\* index page
C5_IndexPage ==
  phase = "done" =>
    \A c \in DOMAIN cats :
      LET tpl == cats[c].index_template
          md == SortByIndex(MarkdownDocuments(CategoryDocuments(fs, cats[c])))
          page == OutputDirOf(c) \o <<INDEX_HTML>>
      IN IF tpl # None /\ md # <<>>
           THEN /\ IsFile(fs, page)
                /\ fs[page].content =
                     parse_jinja(fs, tpl[1], md, CategoryChildren(fs, cats[c]), root, None, c)
           ELSE \A i \in 1..Len(writes) :
                  ~(writes[i].op = "index" /\ writes[i].category = c)

\* C9: the name a document's href gives is the name of the file written for it
C9_HrefIsWrittenName ==
  \A i \in 1..Len(writes) :
    writes[i].op # "index" =>
      Base(writes[i].path) = href(Document(writes[i].document[1]))

\* C10: no path is written twice in a run
C10_NoOverwrite ==
  \A i, j \in 1..Len(writes) : i < j => writes[i].path # writes[j].path

--------------------------------------------------------------------------
(* Two runs over the same tree.                                            *)

RunNames == {MARKDOWN_TEMPLATE, INDEX_TEMPLATE, N_1a_md, N_a_html, N_x_png}

InitRuns ==
  InitWith({l \o <<D_c>> : l \in Listings(RunNames, MaxFiles)},
           {<<N_x_png>>, <<N_n_md, N_q_htm>>}, {<<>>}, {<<>>},
           {<<Call(<<D_r>>, <<D_o1>>), Call(<<D_r>>, <<D_o2>>)>>,
            <<Call(<<D_r>>, <<D_o2>>), Call(<<D_r>>, <<D_o1>>)>>,
            <<Call(<<D_r>>, <<D_o1>>), Call(<<D_r>>, <<D_o1>>)>>,
            <<Call(<<F_f>>, <<D_o1>>), Call(<<D_nx>>, <<D_o2>>)>>,
            <<Call(<<D_r>>, <<F_f>>), Call(<<D_r>>, <<D_o2>>)>>})

SpecRuns == InitRuns /\ [][Next]_vars

\* what lies below directory d: relative path, kind and content of each entry
SubTree(f, d) ==
  {<<SubSeq(p, Len(d) + 1, Len(p)), f[p].kind, f[p].content>> :
     p \in {q \in DOMAIN f : IsPrefix(d, q) /\ q # d}}

\* two runs over the same root, each into its own output directory that was
\* missing or empty, neither inside the other's tree
TwoFreshRuns ==
  /\ Len(finished) = 2
  /\ phase # "running"
  /\ finished[1].root_dir = finished[2].root_dir
  /\ finished[1].output_dir # finished[2].output_dir
  /\ \A k \in 1..2 :
       /\ finished[k].fresh
       /\ ~IsPrefix(finished[k].root_dir, finished[k].output_dir)
       /\ ~IsPrefix(finished[k].output_dir, finished[k].root_dir)

\* C7: two runs over the same unchanged tree, each into an empty output
\* directory, leave the same output tree: the same directories and files at the
\* same relative paths with the same contents
C7_SameOutputTwice ==
  TwoFreshRuns =>
    SubTree(fs, finished[1].output_dir) = SubTree(fs, finished[2].output_dir)

\* both runs completed and wrote a rendered page and a subdirectory
C7_Witness ==
  /\ TwoFreshRuns
  /\ finished[1].result = "done"
  /\ finished[2].result = "done"
  /\ Cardinality(SubTree(fs, finished[1].output_dir)) >= 4
  /\ \E w \in 1..Len(writes) : writes[w].op = "template"

--------------------------------------------------------------------------
(* The output directory inside the root, as with the command's defaults    *)
(* (root `.`, output `dist`).                                              *)

FeedbackNames == {MARKDOWN_TEMPLATE, INDEX_TEMPLATE, N_1a_md, N_a_html, N_x_png}

InitFeedback ==
  InitWith({l \o d : l \in Listings(FeedbackNames, MaxFiles), d \in {<<>>, <<D_c>>}},
           {<<N_x_png>>, <<N_n_md, N_q_htm>>}, {<<>>}, {<<>>},
           {<<Call(<<D_r>>, <<D_r, D_dist>>)>>, <<Call(<<D_r>>, <<D_o1>>)>>})

SpecFeedback == InitFeedback /\ [][Next]_vars

\* C8: nothing the run creates is enumerated: every Category and Document is
\* a directory or file of the tree the run started on, and render_category is
\* called once for each such directory and for nothing else
C8_NoFeedback ==
  /\ \A c \in DOMAIN cats :
       /\ IsDir(started.fs, c)
       /\ \A d \in Range(CategoryDocuments(fs, cats[c])) : IsFile(started.fs, d.file_path)
  /\ \A k \in 1..Len(calls) :
       /\ IsDir(started.fs, calls[k].category)
       /\ \A j \in 1..Len(calls) : j # k => calls[j].category # calls[k].category

====
